---- MODULE Spec2Model ----
(***************************************************************************)
(* A model of the request handlers of server.py (the ANYRITE blog API).    *)
(*                                                                         *)
(* The four MongoDB collections are the shared state.  Every handler is a  *)
(* coroutine: it runs without interruption between two awaited storage     *)
(* calls, and every awaited storage call is one atomic step of the model   *)
(* (the storage call itself plus the handler's code up to the next await   *)
(* or up to the response).  A request enters the model with its first      *)
(* storage call: nothing that runs before it touches shared state.         *)
(*                                                                         *)
(* Like and Comment documents are kept in bags: their uuid4 id is read by  *)
(* no handler, so two documents that agree on the other fields are         *)
(* interchangeable.  A Like's created_at is read by no handler either; a   *)
(* Comment's orders the list of get_comments.                              *)
(***************************************************************************)
EXTENDS Integers, FiniteSets, Sequences, Bags, TLC

\* ------------------------------------------------------------------ bounds
\* Number of requests that can be in progress at the same time.
NumSlots == 2
\* Number of requests that are ever started in one behaviour, for each of
\* the specifications below.
MaxRequests == 2
MaxLikesRequests == 4
MaxSeqRequests == 4
MaxCascadeRequests == 3
MaxOwnerRequests == 2
MaxAuthRequests == 2
MaxPublicRequests == 2
MaxListingRequests == 2
MaxUpdateRequests == 2
MaxLoginRequests == 3
MaxUnlikeRequests == 3
\* The clock (in days) stops advancing here.
MaxTime == 60

\* The clock advances in jumps of this many days.
TickSteps == {15}

\* ------------------------------------------------------- program constants
\* timedelta(days=30) of create_access_token
TOKEN_EXPIRE_DAYS == 30

\* ------------------------------------------------------------ input values
Usernames == {"alice", "carol"}
Emails == {"a@x", "c@x"}
Passwords == {"pw1", "pw2"}
Titles == {"t2"}
Contents == {"b2"}
CoverImages == {"i2"}
TagLists == {<<>>, <<"x">>}
CommentTexts == {"c1"}

Slots == 1..NumSlots

VARIABLES
    users,          \* db.users: set of user documents
    articles,       \* db.articles: set of article documents
    comments,       \* db.comments: bag of comment documents
    likes,          \* db.likes: bag of like documents
    now,            \* datetime.now(timezone.utc), in days
    nextArticleId,  \* stands for the next uuid4 an Article gets
    reqs,           \* the requests in progress, one per slot
    response,       \* the response sent last
    issued,         \* the tokens the server has handed out, each with the id of
                    \* the user it was made for and the time it was made at
    started         \* number of requests started so far

vars == <<users, articles, comments, likes, now, nextArticleId, reqs, response,
          issued, started>>
db == <<users, articles, comments, likes>>

\* ------------------------------------------------------------- collections
\* find_one: the first in insertion order of the documents that match the
\* filter (hits).  User and article ids are handed out in insertion order.
find_one(hits) ==
    IF hits = {} THEN {} ELSE {CHOOSE d \in hits : \A e \in hits : d.id <= e.id}

\* pwd_context.hash: a salted bcrypt hash, which verify accepts for the
\* password it was made from and for no other.
hash_password(password) == [scheme |-> "bcrypt", of |-> password]

verify_password(plain_password, hashed_password) ==
    hashed_password.scheme = "bcrypt" /\ hashed_password.of = plain_password

\* Documents of the likes and comments collections.
Like(article_id, user_id) == [article_id |-> article_id, user_id |-> user_id]

Comment(article_id, user, content) ==
    [article_id |-> article_id, user_id |-> user.id, username |-> user.username,
     content |-> content, created_at |-> now]

\* insert_one / delete_one / delete_many on a bag of documents.
insert_one(bag, doc) == bag (+) SetToBag({doc})

delete_one(bag, hits) ==
    IF hits = {} THEN bag ELSE bag (-) SetToBag({CHOOSE d \in hits : TRUE})

deleted_count(hits) == IF hits = {} THEN 0 ELSE 1

delete_many(bag, hits) == [d \in BagToSet(bag) \ hits |-> bag[d]]

\* A faulty variant of sort_created_at_desc: sort("created_at", 1).
sort_created_at_asc(hits) ==
    LET n == BagCardinality(hits)
    IN  {seq \in [1..n -> BagToSet(hits)] :
            /\ \A d \in BagToSet(hits) : Cardinality({i \in 1..n : seq[i] = d}) = hits[d]
            /\ \A i \in 1..n : \A j \in 1..n :
                  i < j => seq[i].created_at <= seq[j].created_at}

\* find(...).sort("created_at", -1): the matching documents (a bag) as a
\* list, newest first; the order of documents with equal created_at is the
\* database's choice.
sort_created_at_desc(hits) ==
    LET n == BagCardinality(hits)
    IN  {seq \in [1..n -> BagToSet(hits)] :
            /\ \A d \in BagToSet(hits) : Cardinality({i \in 1..n : seq[i] = d}) = hits[d]
            /\ \A i \in 1..n : \A j \in 1..n :
                  i < j => seq[i].created_at >= seq[j].created_at}

\* to_list(length): at most length documents of the cursor.
to_list(cursor, length) ==
    IF Len(cursor) <= length THEN cursor ELSE SubSeq(cursor, 1, length)

\* A projection that leaves fields out: {"password_hash": 0}.
project_out(doc, fields) == [k \in (DOMAIN doc) \ fields |-> doc[k]]

\* ------------------------------------------------------------------ tokens
\* A bearer token is a JWT: a payload and a signature, or a string that is
\* no JWT at all.
Token(payload) == [form |-> "jwt", sig |-> "valid", payload |-> payload]

create_access_token(data) ==
    Token([k \in (DOMAIN data) \cup {"exp"} |->
              IF k = "exp" THEN now + TOKEN_EXPIRE_DAYS ELSE data[k]])

\* A faulty variant of jwt_decode: verify_exp switched off.
jwt_decode_no_expiry(token) ==
    IF token.form # "jwt" THEN [raised |-> "DecodeError"]
    ELSE IF token.sig # "valid" THEN [raised |-> "InvalidSignatureError"]
    ELSE [raised |-> "", payload |-> token.payload]

\* jwt.decode of PyJWT: the structure, then the signature, then the claims;
\* a token is expired when exp <= now.
jwt_decode(token) ==
    IF token.form # "jwt" THEN [raised |-> "DecodeError"]
    ELSE IF token.sig # "valid" THEN [raised |-> "InvalidSignatureError"]
    ELSE IF "exp" \in DOMAIN token.payload /\ token.payload.exp <= now
         THEN [raised |-> "ExpiredSignatureError"]
    ELSE [raised |-> "", payload |-> token.payload]

\* The names the module jwt (PyJWT, line 13) defines among those the code
\* uses.  PyJWT has no JWTError: that is a name of python-jose.
JwtNames == {"encode", "decode", "ExpiredSignatureError"}

\* What leaves the try statement of get_current_user when exc is raised in
\* its body.  The except clauses are evaluated in order; evaluating
\* jwt.JWTError raises AttributeError when the module has no such name.
get_current_user_except(exc) ==
    IF exc = "ExpiredSignatureError"
        THEN [ok |-> FALSE, status |-> 401, detail |-> "Token expired"]
    ELSE IF "JWTError" \notin JwtNames
        THEN [ok |-> FALSE, status |-> 500, detail |-> "AttributeError"]
    ELSE IF exc \in {"DecodeError", "InvalidSignatureError"}
        THEN [ok |-> FALSE, status |-> 401, detail |-> "Invalid token"]
    ELSE [ok |-> FALSE, status |-> 401, detail |-> exc]

get_current_user(token) ==
    LET decoded == jwt_decode(token)
    IN  IF decoded.raised # "" THEN get_current_user_except(decoded.raised)
        ELSE IF "sub" \notin DOMAIN decoded.payload
            THEN get_current_user_except("Invalid authentication")
        ELSE LET user == find_one({u \in users : u.id = decoded.payload.sub})
             IN  IF user = {} THEN get_current_user_except("User not found")
                 ELSE [ok |-> TRUE, user |-> CHOOSE u \in user : TRUE]

\* update_one on db.articles: $set and $inc change the matching document,
\* and nothing when no document matches.
update_one_set(article_id, update_data) ==
    {IF a.id = article_id
        THEN [k \in DOMAIN a |-> IF k \in DOMAIN update_data THEN update_data[k] ELSE a[k]]
        ELSE a : a \in articles}

\* A faulty variant of update_one_inc: the update loses the sign of its step.
update_one_inc_unsigned(article_id, field, by) ==
    {IF a.id = article_id THEN [a EXCEPT ![field] = @ + 1] ELSE a : a \in articles}

update_one_inc(article_id, field, by) ==
    {IF a.id = article_id THEN [a EXCEPT ![field] = @ + by] ELSE a : a \in articles}

\* ---------------------------------------------------------------- requests
Idle == [op |-> "idle"]

\* The handler of slot s goes on with its next storage call.
Continue(s, req) == reqs' = [reqs EXCEPT ![s] = req]

\* The handler of slot s returns or raises: the response leaves.
Respond(s, req, status, detail, body) ==
    /\ response' = [op |-> req.op, status |-> status, detail |-> detail,
                    body |-> body, request |-> req, at |-> now]
    /\ reqs' = [reqs EXCEPT ![s] = Idle]

\* A new request takes the first free slot.
Arrives(s, max) ==
    /\ started < max
    /\ reqs[s] = Idle
    /\ \A t \in Slots : t < s => reqs[t] # Idle
    /\ started' = started + 1

AtPc(s, op, pc) == reqs[s].op = op /\ reqs[s].pc = pc

\* Tokens a client can present: those the server handed out, and forged or
\* damaged ones (SECRET_KEY has a public default, line 27).
ForgedTokens ==
    {[form |-> "garbage"],
     [form |-> "jwt", sig |-> "invalid", payload |-> [sub |-> 1, exp |-> now + TOKEN_EXPIRE_DAYS]],
     Token([exp |-> now + TOKEN_EXPIRE_DAYS]),
     Token([sub |-> 0, exp |-> now + TOKEN_EXPIRE_DAYS])}

TokenInputs == {i.token : i \in issued} \cup ForgedTokens

\* Article ids a client can name: every id handed out so far, and one that
\* never was.
ArticleIdInputs == 0..(nextArticleId - 1)

NoUser == [id |-> 0]

NewRequest(op, token, pc, params) ==
    [op |-> op, pc |-> pc, token |-> token, current_user |-> NoUser, params |-> params]

\* Depends(get_current_user), lines 112-126: the first storage call of every
\* authenticated request.  The handler's body follows at req.pc, or the
\* response of the failed dependency leaves.
Authenticate(s, req) ==
    LET auth == get_current_user(req.token)
    IN  /\ IF auth.ok
              THEN /\ Continue(s, [req EXCEPT !.current_user = auth.user])
                   /\ UNCHANGED response
              ELSE Respond(s, req, auth.status, auth.detail, "")
        /\ UNCHANGED <<users, articles, comments, likes, now, nextArticleId, issued>>

\* ------------------------------------------------------- register, 129-160
\* A faulty variant of RegisterFind: it looks the email up and not the
\* username.
RegisterFind_email_only(s, max) ==
    /\ Arrives(s, max)
    /\ \E username \in Usernames, email \in Emails, password \in Passwords :
        LET req == [op |-> "register", pc |-> "insert", username |-> username,
                    email |-> email, password |-> password]
            existing_user == find_one({u \in users : u.email = email})
        IN  IF existing_user # {}
                THEN Respond(s, req, 400, "User already exists", "")
                ELSE /\ Continue(s, req)
                     /\ UNCHANGED response
    /\ UNCHANGED <<users, articles, comments, likes, now, nextArticleId, issued>>

RegisterFind(s, max) ==
    /\ Arrives(s, max)
    /\ \E username \in Usernames, email \in Emails, password \in Passwords :
        LET req == [op |-> "register", pc |-> "insert", username |-> username,
                    email |-> email, password |-> password]
            existing_user == find_one({u \in users : u.email = email \/ u.username = username})
        IN  IF existing_user # {}
                THEN Respond(s, req, 400, "User already exists", "")
                ELSE /\ Continue(s, req)
                     /\ UNCHANGED response
    /\ UNCHANGED <<users, articles, comments, likes, now, nextArticleId, issued>>

RegisterInsert(s) ==
    /\ AtPc(s, "register", "insert")
    /\ LET req == reqs[s]
           user == [id |-> Cardinality(users) + 1, username |-> req.username,
                    email |-> req.email, password_hash |-> hash_password(req.password)]
           token == create_access_token([sub |-> user.id])
       IN  /\ users' = users \cup {user}
           /\ issued' = issued \cup {[token |-> token, user_id |-> user.id, at |-> now]}
           /\ Respond(s, req, 200, "",
                      [token |-> token,
                       user |-> [id |-> user.id, username |-> user.username, email |-> user.email]])
    /\ UNCHANGED <<articles, comments, likes, now, nextArticleId, started>>

\* ---------------------------------------------------------- login, 162-179
Login(s, max) ==
    /\ Arrives(s, max)
    /\ \E email \in Emails, password \in Passwords :
        LET req == [op |-> "login", pc |-> "find", email |-> email, password |-> password]
            user == find_one({u \in users : u.email = email})
        IN  IF user = {} \/ ~verify_password(password, (CHOOSE u \in user : TRUE).password_hash)
                THEN /\ Respond(s, req, 401, "Invalid credentials", "")
                     /\ UNCHANGED issued
                ELSE LET u == CHOOSE u \in user : TRUE
                         token == create_access_token([sub |-> u.id])
                     IN  /\ issued' = issued \cup {[token |-> token, user_id |-> u.id, at |-> now]}
                         /\ Respond(s, req, 200, "",
                                    [token |-> token,
                                     user |-> [id |-> u.id, username |-> u.username,
                                               email |-> u.email]])
    /\ UNCHANGED <<users, articles, comments, likes, now, nextArticleId>>

\* --------------------------------------------------------- get_me, 181-189
GetMe(s, tokens, max) ==
    /\ Arrives(s, max)
    /\ \E token \in tokens :
        LET req == NewRequest("get_me", token, "return", "")
            auth == get_current_user(token)
        IN  IF auth.ok
                THEN Respond(s, [req EXCEPT !.current_user = auth.user], 200, "",
                             [id |-> auth.user.id, username |-> auth.user.username,
                              email |-> auth.user.email])
                ELSE Respond(s, req, auth.status, auth.detail, "")
    /\ UNCHANGED <<users, articles, comments, likes, now, nextArticleId, issued>>

\* A request to one of the other authenticated endpoints arrives.
ArticleCreateInputs ==
    {[title |-> t, content |-> c, tags |-> g, cover_image |-> ""] :
        t \in Titles, c \in Contents, g \in TagLists}

\* ArticleUpdate, 73-77: a field that is None is not in the patch.
ArticleUpdateInputs ==
    {[x \in {} |-> 0]}
    \cup {[title |-> t] : t \in Titles}
    \cup {[tags |-> g] : g \in TagLists}
    \cup {[title |-> t, tags |-> g] : t \in Titles, g \in TagLists}

\* Every patch: each of the four fields is None or a value.
Optional(values) == {{}} \cup {{v} : v \in values}

ArticleUpdate(title, content, tags, cover_image) ==
    [k \in {f \in {"title", "content", "tags", "cover_image"} :
               \/ f = "title" /\ title # {}
               \/ f = "content" /\ content # {}
               \/ f = "tags" /\ tags # {}
               \/ f = "cover_image" /\ cover_image # {}} |->
        CASE k = "title" -> CHOOSE v \in title : TRUE
          [] k = "content" -> CHOOSE v \in content : TRUE
          [] k = "tags" -> CHOOSE v \in tags : TRUE
          [] k = "cover_image" -> CHOOSE v \in cover_image : TRUE]

ArticlePatches ==
    {ArticleUpdate(t, c, g, i) :
        t \in Optional(Titles), c \in Optional(Contents), g \in Optional({<<>>}),
        i \in Optional(CoverImages)}

\* The requests to the endpoints ops that carry one of tokens and name one
\* of article_ids.
AuthenticatedRequests(ops, tokens, article_ids) ==
    {r \in
        {NewRequest("create_article", tok, "insert", d) :
            tok \in tokens, d \in ArticleCreateInputs}
        \cup {NewRequest("update_article", tok, "find_article", [article_id |-> a, data |-> d]) :
            tok \in tokens, a \in article_ids, d \in ArticleUpdateInputs}
        \cup {NewRequest(op, tok, "find_article", [article_id |-> a]) :
            op \in {"delete_article", "like_article"}, tok \in tokens, a \in article_ids}
        \cup {NewRequest("unlike_article", tok, "delete_like", [article_id |-> a]) :
            tok \in tokens, a \in article_ids}
        \cup {NewRequest("is_article_liked", tok, "find_like", [article_id |-> a]) :
            tok \in tokens, a \in article_ids}
        \cup {NewRequest("create_comment", tok, "find_article",
                         [article_id |-> a, content |-> c]) :
            tok \in tokens, a \in article_ids, c \in CommentTexts}
     : r.op \in ops}

AuthenticatedArrives(s, requests, max) ==
    /\ Arrives(s, max)
    /\ \E req \in requests : Authenticate(s, req)

\* ------------------------------------------------- create_article, 223-240
CreateArticleInsert(s) ==
    /\ AtPc(s, "create_article", "insert")
    /\ LET req == reqs[s]
           article == [id |-> nextArticleId,
                       author_id |-> req.current_user.id,
                       author_username |-> req.current_user.username,
                       title |-> req.params.title,
                       content |-> req.params.content,
                       tags |-> req.params.tags,
                       cover_image |-> req.params.cover_image,
                       likes_count |-> 0,
                       comments_count |-> 0,
                       created_at |-> now,
                       updated_at |-> now]
       IN  /\ articles' = articles \cup {article}
           /\ nextArticleId' = nextArticleId + 1
           /\ Respond(s, req, 200, "", article)
    /\ UNCHANGED <<users, comments, likes, now, issued, started>>

\* A faulty variant of FindOwnArticle: no ownership check (lines 248, 270).
FindOwnArticle_anyone(s, op, next) ==
    /\ AtPc(s, op, "find_article")
    /\ LET req == reqs[s]
           article == find_one({a \in articles : a.id = req.params.article_id})
       IN  IF article = {}
               THEN Respond(s, req, 404, "Article not found", "")
               ELSE /\ Continue(s, [req EXCEPT !.pc = next])
                    /\ UNCHANGED response
    /\ UNCHANGED <<users, articles, comments, likes, now, nextArticleId, issued, started>>

\* The lookup and the ownership check that update_article and
\* delete_article share, 244-249 and 266-271.
FindOwnArticle(s, op, next) ==
    /\ AtPc(s, op, "find_article")
    /\ LET req == reqs[s]
           article == find_one({a \in articles : a.id = req.params.article_id})
       IN  IF article = {}
               THEN Respond(s, req, 404, "Article not found", "")
           ELSE IF (CHOOSE a \in article : TRUE).author_id # req.current_user.id
               THEN Respond(s, req, 403, "Not authorized", "")
           ELSE /\ Continue(s, [req EXCEPT !.pc = next])
                /\ UNCHANGED response
    /\ UNCHANGED <<users, articles, comments, likes, now, nextArticleId, issued, started>>

\* ------------------------------------------------- update_article, 242-262
UpdateArticleFind(s) == FindOwnArticle(s, "update_article", "update_one")

\* A faulty variant of UpdateArticleUpdate: updated_at is not refreshed
\* (line 252).
UpdateArticleUpdate_stale(s) ==
    /\ AtPc(s, "update_article", "update_one")
    /\ LET req == reqs[s]
       IN  /\ articles' = update_one_set(req.params.article_id, req.params.data)
           /\ Continue(s, [req EXCEPT !.pc = "find_updated"])
    /\ UNCHANGED <<users, comments, likes, now, nextArticleId, response, issued, started>>

UpdateArticleUpdate(s) ==
    /\ AtPc(s, "update_article", "update_one")
    /\ LET req == reqs[s]
           data == req.params.data
           update_data == [k \in (DOMAIN data) \cup {"updated_at"} |->
                              IF k = "updated_at" THEN now ELSE data[k]]
       IN  /\ articles' = update_one_set(req.params.article_id, update_data)
           /\ Continue(s, [req EXCEPT !.pc = "find_updated"])
    /\ UNCHANGED <<users, comments, likes, now, nextArticleId, response, issued, started>>

\* updated_article['created_at'] on None raises TypeError.
UpdateArticleReturn(s) ==
    /\ AtPc(s, "update_article", "find_updated")
    /\ LET req == reqs[s]
           updated_article == find_one({a \in articles : a.id = req.params.article_id})
       IN  IF updated_article = {}
               THEN Respond(s, req, 500, "TypeError", "")
               ELSE Respond(s, req, 200, "", CHOOSE a \in updated_article : TRUE)
    /\ UNCHANGED <<users, articles, comments, likes, now, nextArticleId, issued, started>>

\* ------------------------------------------------- delete_article, 264-277
DeleteArticleFind(s) == FindOwnArticle(s, "delete_article", "delete_article")

DeleteArticleDelete(s) ==
    /\ AtPc(s, "delete_article", "delete_article")
    /\ articles' = {a \in articles : a.id # reqs[s].params.article_id}
    /\ Continue(s, [reqs[s] EXCEPT !.pc = "delete_comments"])
    /\ UNCHANGED <<users, comments, likes, now, nextArticleId, response, issued, started>>

DeleteArticleComments(s) ==
    /\ AtPc(s, "delete_article", "delete_comments")
    /\ comments' = delete_many(comments, {c \in BagToSet(comments) :
                                         c.article_id = reqs[s].params.article_id})
    /\ Continue(s, [reqs[s] EXCEPT !.pc = "delete_likes"])
    /\ UNCHANGED <<users, articles, likes, now, nextArticleId, response, issued, started>>

DeleteArticleLikes(s) ==
    /\ AtPc(s, "delete_article", "delete_likes")
    /\ likes' = delete_many(likes, {l \in BagToSet(likes) :
                                   l.article_id = reqs[s].params.article_id})
    /\ Respond(s, reqs[s], 200, "Article deleted", "")
    /\ UNCHANGED <<users, articles, comments, now, nextArticleId, issued, started>>

\* --------------------------------------------------- like_article, 280-297
LikeFindArticle(s) ==
    /\ AtPc(s, "like_article", "find_article")
    /\ LET req == reqs[s]
           article == find_one({a \in articles : a.id = req.params.article_id})
       IN  IF article = {}
               THEN Respond(s, req, 404, "Article not found", "")
               ELSE /\ Continue(s, [req EXCEPT !.pc = "find_like"])
                    /\ UNCHANGED response
    /\ UNCHANGED <<users, articles, comments, likes, now, nextArticleId, issued, started>>

\* A faulty variant of LikeFindLike: no existence check (lines 286-288).
LikeFindLike_unguarded(s) ==
    /\ AtPc(s, "like_article", "find_like")
    /\ Continue(s, [reqs[s] EXCEPT !.pc = "insert_like"])
    /\ UNCHANGED <<users, articles, comments, likes, now, nextArticleId, response, issued,
                   started>>

LikeFindLike(s) ==
    /\ AtPc(s, "like_article", "find_like")
    /\ LET req == reqs[s]
           existing_like == CopiesIn(Like(req.params.article_id, req.current_user.id), likes)
       IN  IF existing_like > 0
               THEN Respond(s, req, 200, "Already liked", "")
               ELSE /\ Continue(s, [req EXCEPT !.pc = "insert_like"])
                    /\ UNCHANGED response
    /\ UNCHANGED <<users, articles, comments, likes, now, nextArticleId, issued, started>>

LikeInsert(s) ==
    /\ AtPc(s, "like_article", "insert_like")
    /\ likes' = insert_one(likes, Like(reqs[s].params.article_id, reqs[s].current_user.id))
    /\ Continue(s, [reqs[s] EXCEPT !.pc = "inc_likes"])
    /\ UNCHANGED <<users, articles, comments, now, nextArticleId, response, issued, started>>

LikeInc(s) ==
    /\ AtPc(s, "like_article", "inc_likes")
    /\ articles' = update_one_inc(reqs[s].params.article_id, "likes_count", 1)
    /\ Respond(s, reqs[s], 200, "Liked", "")
    /\ UNCHANGED <<users, comments, likes, now, nextArticleId, issued, started>>

\* ------------------------------------------------- unlike_article, 299-307
\* A faulty variant of UnlikeDelete: the filter names the article and not
\* the user (line 301).
UnlikeDelete_any_user(s) ==
    /\ AtPc(s, "unlike_article", "delete_like")
    /\ LET req == reqs[s]
           mine == {l \in BagToSet(likes) : l.article_id = req.params.article_id}
       IN  /\ likes' = delete_one(likes, mine)
           /\ IF deleted_count(mine) > 0
                 THEN /\ Continue(s, [req EXCEPT !.pc = "dec_likes"])
                      /\ UNCHANGED response
                 ELSE Respond(s, req, 404, "Like not found", "")
    /\ UNCHANGED <<users, articles, comments, now, nextArticleId, issued, started>>

\* A faulty variant of UnlikeDelete: no deleted_count check (line 303).
UnlikeDelete_unchecked(s) ==
    /\ AtPc(s, "unlike_article", "delete_like")
    /\ LET req == reqs[s]
           mine == {l \in BagToSet(likes) :
                       l.article_id = req.params.article_id /\ l.user_id = req.current_user.id}
       IN  /\ likes' = delete_one(likes, mine)
           /\ Continue(s, [req EXCEPT !.pc = "dec_likes"])
    /\ UNCHANGED <<users, articles, comments, now, nextArticleId, response, issued, started>>

UnlikeDelete(s) ==
    /\ AtPc(s, "unlike_article", "delete_like")
    /\ LET req == reqs[s]
           mine == {l \in BagToSet(likes) :
                       l.article_id = req.params.article_id /\ l.user_id = req.current_user.id}
       IN  /\ likes' = delete_one(likes, mine)
           /\ IF deleted_count(mine) > 0
                 THEN /\ Continue(s, [req EXCEPT !.pc = "dec_likes"])
                      /\ UNCHANGED response
                 ELSE Respond(s, req, 404, "Like not found", "")
    /\ UNCHANGED <<users, articles, comments, now, nextArticleId, issued, started>>

UnlikeDec(s) ==
    /\ AtPc(s, "unlike_article", "dec_likes")
    /\ articles' = update_one_inc(reqs[s].params.article_id, "likes_count", -1)
    /\ Respond(s, reqs[s], 200, "Unliked", "")
    /\ UNCHANGED <<users, comments, likes, now, nextArticleId, issued, started>>

\* ----------------------------------------------- is_article_liked, 309-312
IsArticleLiked(s) ==
    /\ AtPc(s, "is_article_liked", "find_like")
    /\ LET req == reqs[s]
           like == CopiesIn(Like(req.params.article_id, req.current_user.id), likes)
       IN  Respond(s, req, 200, "", [is_liked |-> like > 0])
    /\ UNCHANGED <<users, articles, comments, likes, now, nextArticleId, issued, started>>

\* ------------------------------------------------- create_comment, 325-344
\* A faulty variant of CommentFindArticle: the result of the lookup is not
\* tested (lines 328-329).
CommentFindArticle_unchecked(s) ==
    /\ AtPc(s, "create_comment", "find_article")
    /\ Continue(s, [reqs[s] EXCEPT !.pc = "insert_comment"])
    /\ UNCHANGED <<users, articles, comments, likes, now, nextArticleId, response, issued,
                   started>>

CommentFindArticle(s) ==
    /\ AtPc(s, "create_comment", "find_article")
    /\ LET req == reqs[s]
           article == find_one({a \in articles : a.id = req.params.article_id})
       IN  IF article = {}
               THEN Respond(s, req, 404, "Article not found", "")
               ELSE /\ Continue(s, [req EXCEPT !.pc = "insert_comment"])
                    /\ UNCHANGED response
    /\ UNCHANGED <<users, articles, comments, likes, now, nextArticleId, issued, started>>

CommentInsert(s) ==
    /\ AtPc(s, "create_comment", "insert_comment")
    /\ LET req == reqs[s]
           comment == Comment(req.params.article_id, req.current_user, req.params.content)
       IN  /\ comments' = insert_one(comments, comment)
           /\ Continue(s, [k \in (DOMAIN req) \cup {"comment"} |->
                              IF k = "comment" THEN comment
                              ELSE IF k = "pc" THEN "inc_comments" ELSE req[k]])
    /\ UNCHANGED <<users, articles, likes, now, nextArticleId, response, issued, started>>

\* A faulty variant of CommentInc: the counter update is left out (line 342).
CommentInc_dropped(s) ==
    /\ AtPc(s, "create_comment", "inc_comments")
    /\ Respond(s, reqs[s], 200, "", reqs[s].comment)
    /\ UNCHANGED <<users, articles, comments, likes, now, nextArticleId, issued, started>>

CommentInc(s) ==
    /\ AtPc(s, "create_comment", "inc_comments")
    /\ articles' = update_one_inc(reqs[s].params.article_id, "comments_count", 1)
    /\ Respond(s, reqs[s], 200, "", reqs[s].comment)
    /\ UNCHANGED <<users, comments, likes, now, nextArticleId, issued, started>>

\* ------------------------------------------- the public endpoints, 192-364
\* A request to an endpoint without Depends(get_current_user).
PublicRequest(op, pc, params) == [op |-> op, pc |-> pc, params |-> params]

\* An Optional[str] query parameter is a set: empty for None, else the
\* string.  "if tag:" is false for None and for the empty string.
truthy(opt) == opt # {} /\ opt # {""}

TagInputs == {{}, {""}, {"x"}, {"y"}}
AuthorInputs == {{}, {"alice"}}
ProfileInputs == Usernames \cup {"bob"}

\* The elements of a list.
Range(seq) == {seq[i] : i \in DOMAIN seq}

\* get_articles, 192-208.  A query on the array field tags matches the
\* documents whose array contains the value.
GetArticles(s, max) ==
    /\ Arrives(s, max)
    /\ \E tag \in TagInputs, author \in AuthorInputs :
        LET req == PublicRequest("get_articles", "find", [tag |-> tag, author |-> author])
            hits == {a \in articles :
                        /\ truthy(tag) => \A v \in tag : v \in Range(a.tags)
                        /\ truthy(author) => \A v \in author : a.author_username = v}
        IN  \E cursor \in sort_created_at_desc(SetToBag(hits)) :
                Respond(s, req, 200, "", to_list(cursor, 1000))
    /\ UNCHANGED <<users, articles, comments, likes, now, nextArticleId, issued>>

\* get_article, 210-221.
GetArticle(s, max) ==
    /\ Arrives(s, max)
    /\ \E article_id \in ArticleIdInputs :
        LET req == PublicRequest("get_article", "find", [article_id |-> article_id])
            article == find_one({a \in articles : a.id = article_id})
        IN  IF article = {}
                THEN Respond(s, req, 404, "Article not found", "")
                ELSE Respond(s, req, 200, "", CHOOSE a \in article : TRUE)
    /\ UNCHANGED <<users, articles, comments, likes, now, nextArticleId, issued>>

\* get_comments, 315-323.
GetComments(s, max) ==
    /\ Arrives(s, max)
    /\ \E article_id \in ArticleIdInputs :
        LET req == PublicRequest("get_comments", "find", [article_id |-> article_id])
            hits == {c \in BagToSet(comments) : c.article_id = article_id}
        IN  \E cursor \in sort_created_at_desc([c \in hits |-> comments[c]]) :
                Respond(s, req, 200, "", to_list(cursor, 1000))
    /\ UNCHANGED <<users, articles, comments, likes, now, nextArticleId, issued>>

\* get_user_profile, 347-364.
\* A faulty variant of GetUserProfileFind: the projection keeps
\* password_hash (line 349).
GetUserProfileFind_unprojected(s, max) ==
    /\ Arrives(s, max)
    /\ \E username \in ProfileInputs :
        LET req == PublicRequest("get_user_profile", "find_articles", [username |-> username])
            user == find_one({u \in users : u.username = username})
        IN  IF user = {}
                THEN Respond(s, req, 404, "User not found", "")
                ELSE /\ Continue(s, [op |-> req.op, pc |-> req.pc, params |-> req.params,
                                     user |-> CHOOSE u \in user : TRUE])
                     /\ UNCHANGED response
    /\ UNCHANGED <<users, articles, comments, likes, now, nextArticleId, issued>>

GetUserProfileFind(s, max) ==
    /\ Arrives(s, max)
    /\ \E username \in ProfileInputs :
        LET req == PublicRequest("get_user_profile", "find_articles", [username |-> username])
            user == find_one({u \in users : u.username = username})
        IN  IF user = {}
                THEN Respond(s, req, 404, "User not found", "")
                ELSE /\ Continue(s, [op |-> req.op, pc |-> req.pc, params |-> req.params,
                                     user |-> project_out(CHOOSE u \in user : TRUE,
                                                          {"password_hash"})])
                     /\ UNCHANGED response
    /\ UNCHANGED <<users, articles, comments, likes, now, nextArticleId, issued>>

GetUserProfileArticles(s) ==
    /\ AtPc(s, "get_user_profile", "find_articles")
    /\ LET req == reqs[s]
           hits == {a \in articles : a.author_username = req.params.username}
       IN  \E cursor \in sort_created_at_desc(SetToBag(hits)) :
               Respond(s, req, 200, "", [user |-> req.user, articles |-> to_list(cursor, 100)])
    /\ UNCHANGED <<users, articles, comments, likes, now, nextArticleId, issued, started>>

\* ------------------------------------------------------------------- clock
Tick ==
    /\ \E d \in TickSteps : now + d <= MaxTime /\ now' = now + d
    /\ UNCHANGED <<users, articles, comments, likes, nextArticleId, reqs, response,
                   issued, started>>

\* ----------------------------------------------------------- specification
\* The database outlives the process (lines 20-22): the server starts on an
\* empty database, or on one that earlier requests have filled.
SeedUsers ==
    {[id |-> 1, username |-> "alice", email |-> "a@x", password_hash |-> hash_password("pw1")],
     [id |-> 2, username |-> "bob", email |-> "b@x", password_hash |-> hash_password("pw1")]}

SeedArticles ==
    {[id |-> 1, author_id |-> 1, author_username |-> "alice", title |-> "t1",
      content |-> "b1", tags |-> <<"x">>, cover_image |-> "",
      likes_count |-> 0, comments_count |-> 0,
      created_at |-> 0, updated_at |-> 0]}

SeedTokens ==
    {[token |-> Token([sub |-> u.id, exp |-> TOKEN_EXPIRE_DAYS]), user_id |-> u.id, at |-> 0] :
        u \in SeedUsers}

NoResponse ==
    [op |-> "none", status |-> 0, detail |-> "", body |-> "", request |-> Idle, at |-> 0]

InitRequests ==
    /\ comments = EmptyBag
    /\ likes = EmptyBag
    /\ now = 0
    /\ reqs = [s \in Slots |-> Idle]
    /\ response = NoResponse
    /\ started = 0

InitEmpty ==
    /\ users = {}
    /\ articles = {}
    /\ issued = {}
    /\ nextArticleId = 1
    /\ InitRequests

InitSeeded ==
    /\ users = SeedUsers
    /\ articles = SeedArticles
    /\ issued = SeedTokens
    /\ nextArticleId = 2
    /\ InitRequests

Init == InitEmpty \/ InitSeeded

RegisterSteps(s) == RegisterInsert(s)

CreateArticleSteps(s) == CreateArticleInsert(s)

UpdateArticleSteps(s) ==
    UpdateArticleFind(s) \/ UpdateArticleUpdate(s) \/ UpdateArticleReturn(s)

DeleteArticleSteps(s) ==
    \/ DeleteArticleFind(s) \/ DeleteArticleDelete(s)
    \/ DeleteArticleComments(s) \/ DeleteArticleLikes(s)

LikeSteps(s) == LikeFindArticle(s) \/ LikeFindLike(s) \/ LikeInsert(s) \/ LikeInc(s)

UnlikeSteps(s) == UnlikeDelete(s) \/ UnlikeDec(s)

CommentSteps(s) == CommentFindArticle(s) \/ CommentInsert(s) \/ CommentInc(s)

AllOps ==
    {"create_article", "update_article", "delete_article", "like_article",
     "unlike_article", "is_article_liked", "create_comment"}

IssuedTokens == {i.token : i \in issued}

\* Every endpoint, every input.
Next ==
    \/ Tick
    \/ \E s \in Slots :
        \/ RegisterFind(s, MaxRequests) \/ RegisterSteps(s)
        \/ Login(s, MaxRequests)
        \/ GetMe(s, TokenInputs, MaxRequests)
        \/ AuthenticatedArrives(s, AuthenticatedRequests(AllOps, TokenInputs, ArticleIdInputs),
                                MaxRequests)
        \/ CreateArticleSteps(s)
        \/ UpdateArticleSteps(s)
        \/ DeleteArticleSteps(s)
        \/ LikeSteps(s)
        \/ UnlikeSteps(s)
        \/ IsArticleLiked(s)
        \/ CommentSteps(s)

Spec == Init /\ [][Next]_vars

\* Likes: the users of a filled database like, unlike and look up the
\* article, and delete it.
LikesRequests ==
    AuthenticatedRequests({"like_article", "unlike_article", "is_article_liked",
                           "delete_article"},
                          IssuedTokens, 1..(nextArticleId - 1))

NextLikes ==
    \E s \in Slots :
        \/ AuthenticatedArrives(s, LikesRequests, MaxLikesRequests)
        \/ LikeSteps(s)
        \/ UnlikeSteps(s)
        \/ IsArticleLiked(s)
        \/ DeleteArticleSteps(s)

SpecLikes == InitSeeded /\ [][NextLikes]_vars

\* The same requests, one after the other: a request arrives when no other
\* is in progress.
Quiescent == \A s \in Slots : reqs[s] = Idle

NextLikesSeq ==
    \E s \in Slots :
        \/ (Quiescent /\ AuthenticatedArrives(s, LikesRequests, MaxSeqRequests))
        \/ LikeSteps(s)
        \/ UnlikeSteps(s)
        \/ IsArticleLiked(s)
        \/ DeleteArticleSteps(s)

SpecLikesSeq == InitSeeded /\ [][NextLikesSeq]_vars

\* Cascade: the users of a filled database comment on the article and like
\* it while its author deletes it.
CascadeRequests ==
    AuthenticatedRequests({"create_comment", "like_article", "delete_article"},
                          IssuedTokens, 1..(nextArticleId - 1))

NextCascade ==
    \E s \in Slots :
        \/ AuthenticatedArrives(s, CascadeRequests, MaxCascadeRequests)
        \/ CommentSteps(s)
        \/ LikeSteps(s)
        \/ DeleteArticleSteps(s)

SpecCascade == InitSeeded /\ [][NextCascade]_vars

\* Ownership: the users of a filled database update, delete, like and
\* comment on the article.
OwnerRequests ==
    AuthenticatedRequests({"update_article", "delete_article", "like_article",
                           "create_comment"},
                          IssuedTokens, ArticleIdInputs)

NextOwner ==
    \E s \in Slots :
        \/ AuthenticatedArrives(s, OwnerRequests, MaxOwnerRequests)
        \/ UpdateArticleSteps(s)
        \/ DeleteArticleSteps(s)
        \/ LikeSteps(s)
        \/ CommentSteps(s)

SpecOwner == InitSeeded /\ [][NextOwner]_vars

\* A token that is damaged, forged, expired, without a subject, or of a
\* subject that is no stored user.
BadToken(token) ==
    \/ token.form # "jwt"
    \/ token.sig # "valid"
    \/ "sub" \notin DOMAIN token.payload
    \/ token.payload.exp <= now
    \/ \A u \in users : u.id # token.payload.sub

\* Accounts: registration, login and get_me with every kind of token, and
\* requests to the other authenticated endpoints with a bad token, while
\* the clock advances.
BadTokenRequests ==
    AuthenticatedRequests(AllOps, {t \in TokenInputs : BadToken(t)}, {1})

NextAuth ==
    \/ Tick
    \/ \E s \in Slots :
        \/ RegisterFind(s, MaxAuthRequests) \/ RegisterSteps(s)
        \/ Login(s, MaxAuthRequests)
        \/ GetMe(s, TokenInputs, MaxAuthRequests)
        \/ AuthenticatedArrives(s, BadTokenRequests, MaxAuthRequests)

SpecAuth == Init /\ [][NextAuth]_vars

\* Responses: every endpoint, with the tokens the server handed out.
PublicSteps(s, max) ==
    \/ GetArticles(s, max) \/ GetArticle(s, max) \/ GetComments(s, max)
    \/ GetUserProfileFind(s, max) \/ GetUserProfileArticles(s)

NextResponses ==
    \E s \in Slots :
        \/ RegisterFind(s, MaxPublicRequests) \/ RegisterSteps(s)
        \/ Login(s, MaxPublicRequests)
        \/ GetMe(s, IssuedTokens, MaxPublicRequests)
        \/ PublicSteps(s, MaxPublicRequests)
        \/ AuthenticatedArrives(s, AuthenticatedRequests(AllOps, IssuedTokens, {1}),
                                MaxPublicRequests)
        \/ CreateArticleSteps(s)
        \/ UpdateArticleSteps(s)
        \/ DeleteArticleSteps(s)
        \/ LikeSteps(s)
        \/ UnlikeSteps(s)
        \/ IsArticleLiked(s)
        \/ CommentSteps(s)

SpecResponses == Init /\ [][NextResponses]_vars

\* Listing: a database that has been in use for a while, with articles of
\* two ages and tokens handed out today.  Its users create, update and
\* delete articles and list them.
ArchiveDay == 15

ArchiveArticles ==
    SeedArticles
    \cup {[id |-> 2, author_id |-> 2, author_username |-> "bob", title |-> "t1",
           content |-> "b1", tags |-> <<>>, cover_image |-> "",
           likes_count |-> 0, comments_count |-> 0,
           created_at |-> ArchiveDay, updated_at |-> ArchiveDay]}

InitArchive ==
    /\ users = SeedUsers
    /\ articles = ArchiveArticles
    /\ issued = {[token |-> Token([sub |-> u.id, exp |-> ArchiveDay + TOKEN_EXPIRE_DAYS]),
                  user_id |-> u.id, at |-> ArchiveDay] : u \in SeedUsers}
    /\ nextArticleId = 3
    /\ comments = EmptyBag
    /\ likes = EmptyBag
    /\ now = ArchiveDay
    /\ reqs = [s \in Slots |-> Idle]
    /\ response = NoResponse
    /\ started = 0

ListingRequests ==
    AuthenticatedRequests({"create_article", "update_article", "delete_article"},
                          IssuedTokens, 1..(nextArticleId - 1))

NextListing ==
    \E s \in Slots :
        \/ GetArticles(s, MaxListingRequests)
        \/ AuthenticatedArrives(s, ListingRequests, MaxListingRequests)
        \/ CreateArticleSteps(s)
        \/ UpdateArticleSteps(s)
        \/ DeleteArticleSteps(s)

SpecListing == InitArchive /\ [][NextListing]_vars

\* Updates: the author of article 1 of the archive updates it with every
\* patch, while both users like it and comment on it.
UpdateRequests ==
    {NewRequest("update_article", i.token, "find_article", [article_id |-> 1, data |-> d]) :
        i \in {j \in issued : \E a \in ArchiveArticles : a.id = 1 /\ a.author_id = j.user_id},
        d \in ArticlePatches}
    \cup AuthenticatedRequests({"like_article", "create_comment"}, IssuedTokens, {1})

NextUpdate ==
    \E s \in Slots :
        \/ AuthenticatedArrives(s, UpdateRequests, MaxUpdateRequests)
        \/ UpdateArticleSteps(s)
        \/ LikeSteps(s)
        \/ CommentSteps(s)

SpecUpdate == InitArchive /\ [][NextUpdate]_vars

\* Logins: registrations and logins on an empty or a filled database.
NextLogin ==
    \E s \in Slots :
        \/ RegisterFind(s, MaxLoginRequests) \/ RegisterSteps(s)
        \/ Login(s, MaxLoginRequests)

SpecLogin == Init /\ [][NextLogin]_vars

\* Unlikes: the archive after each of its users has liked the article of
\* the other; the users like and unlike the two articles.
ArchiveLikes ==
    {Like(p[1].id, p[2].id) :
        p \in {q \in ArchiveArticles \X SeedUsers : q[2].id # q[1].author_id}}

InitLiked ==
    /\ users = SeedUsers
    /\ articles = {[a EXCEPT !.likes_count = 1] : a \in ArchiveArticles}
    /\ likes = SetToBag(ArchiveLikes)
    /\ issued = {[token |-> Token([sub |-> u.id, exp |-> ArchiveDay + TOKEN_EXPIRE_DAYS]),
                  user_id |-> u.id, at |-> ArchiveDay] : u \in SeedUsers}
    /\ nextArticleId = 3
    /\ comments = EmptyBag
    /\ now = ArchiveDay
    /\ reqs = [s \in Slots |-> Idle]
    /\ response = NoResponse
    /\ started = 0

UnlikeRequests ==
    AuthenticatedRequests({"like_article", "unlike_article"}, IssuedTokens,
                          1..(nextArticleId - 1))

NextUnlike ==
    \E s \in Slots :
        \/ AuthenticatedArrives(s, UnlikeRequests, MaxUnlikeRequests)
        \/ LikeSteps(s)
        \/ UnlikeSteps(s)

SpecUnlike == InitLiked /\ [][NextUnlike]_vars

\* ------------------------------------------------------------------ claims
\* Number of documents of a bag among hits.
CountOf(bag, hits) == BagCardinality([d \in hits |-> bag[d]])

\* Number of Like documents that reference the article.
LikesOf(bag, article_id) ==
    CountOf(bag, {l \in BagToSet(bag) : l.article_id = article_id})

\* The request that takes the step, when slot s takes it.
Stepping(s) == IF reqs[s] # Idle THEN reqs[s] ELSE reqs'[s]

\* C1: when no request is in progress, likes_count of every article that
\* exists equals the number of Like documents with its id, after any
\* interleaving of like, unlike and delete requests.
C1_LikesCountMatchesLikes ==
    Quiescent => \A a \in articles : a.likes_count = LikesOf(likes, a.id)

\* Every request has ended, an unlike among them, and two users like the
\* article.
C1_Witness ==
    /\ Quiescent
    /\ response.op = "unlike_article"
    /\ response.status = 200
    /\ \E a \in articles :
        /\ a.likes_count = 2
        /\ \E l, m \in BagToSet(likes) :
              l.article_id = a.id /\ m.article_id = a.id /\ l.user_id # m.user_id

\* C2: at most one Like document per (article_id, user_id).
C2_OneLikePerUser == \A l \in BagToSet(likes) : CopiesIn(l, likes) <= 1

\* C10: unlike_article when no Like of the user for the article exists (at
\* its delete_one call, and before it) ends with 404 and changes neither a
\* likes_count nor the likes collection.
C10_UnlikeWithoutLike ==
    [][\A s \in Slots :
        (/\ reqs'[s] # reqs[s]
         /\ Stepping(s).op = "unlike_article"
         /\ Stepping(s).pc = "delete_like"
         /\ CopiesIn(Like(Stepping(s).params.article_id, Stepping(s).current_user.id), likes) = 0)
        => /\ likes' = likes
           /\ articles' = articles
           /\ reqs[s] # Idle =>
                /\ reqs'[s] = Idle
                /\ response'.status = 404
                /\ response'.request = reqs[s]]_vars

\* An unlike has ended with 404 while the other user's Like is in place.
C10_Witness ==
    /\ response.op = "unlike_article"
    /\ response.status = 404
    /\ likes # EmptyBag

\* The article document with the id, as a set.
ArticleById(coll, article_id) == {a \in coll : a.id = article_id}

\* C9: requests run one after the other.  A like_article that follows a
\* successful like_article of the same user on the same article changes
\* nothing and ends with 200 "Already liked"; a like increments likes_count
\* once, and after it the user has one Like document and likes_count is the
\* number of Like documents; an unlike_article that follows removes exactly
\* one Like document, the user's, and then decrements likes_count by one.
C9_LikeTwiceUnlikeOnce ==
    [][\A s \in Slots :
        LET r == Stepping(s)
            a == r.params.article_id
            u == r.current_user.id
            mine == Like(a, u)
        IN  (/\ reqs'[s] # reqs[s]
             /\ response.op = "like_article"
             /\ response.status = 200
             /\ response.request.params.article_id = a
             /\ response.request.current_user.id = u)
            => /\ r.op = "like_article" =>
                    /\ likes' = likes
                    /\ articles' = articles
                    /\ reqs'[s] = Idle =>
                         /\ response'.status = 200
                         /\ response'.detail = "Already liked"
               /\ (r.op = "unlike_article" /\ reqs[s] = Idle) =>
                    /\ likes' = likes
                    /\ articles' = articles
               /\ (r.op = "unlike_article" /\ reqs[s] # Idle /\ r.pc = "delete_like") =>
                    /\ likes' (+) SetToBag({mine}) = likes
                    /\ articles' = articles
                    /\ reqs'[s] # Idle
                    /\ reqs'[s].pc = "dec_likes"
               /\ (r.op = "unlike_article" /\ reqs[s] # Idle /\ r.pc = "dec_likes") =>
                    /\ likes' = likes
                    /\ \A x \in articles : x.id # a => x \in articles'
                    /\ \A x \in ArticleById(articles, a) :
                         [x EXCEPT !.likes_count = @ - 1] \in articles'
                    /\ Cardinality(articles') = Cardinality(articles)
                    /\ response'.status = 200
                    /\ response'.detail = "Unliked"]_vars
    /\ [][\A s \in Slots :
            (reqs[s] # Idle /\ reqs[s].op = "like_article" /\ reqs'[s] # reqs[s])
            => LET a == reqs[s].params.article_id
                   u == reqs[s].current_user.id
               IN  /\ reqs[s].pc = "inc_likes" =>
                        \A x \in ArticleById(articles, a) :
                            [x EXCEPT !.likes_count = @ + 1] \in articles'
                   /\ reqs[s].pc # "inc_likes" => articles' = articles
                   /\ (reqs'[s] = Idle /\ response'.status = 200) =>
                        /\ CopiesIn(Like(a, u), likes') = 1
                        /\ \A x \in ArticleById(articles', a) :
                               x.likes_count = LikesOf(likes', a)
                        /\ ArticleById(articles', a) # {}]_vars

\* The user has liked the article twice, the second request has ended with
\* "Already liked", and the user's unlike has removed the Like document.
C9_Witness ==
    /\ response.op = "like_article"
    /\ response.detail = "Already liked"
    /\ \E s \in Slots :
        /\ reqs[s].op = "unlike_article"
        /\ reqs[s].pc = "dec_likes"
        /\ reqs[s].current_user.id = response.request.current_user.id
        /\ reqs[s].params.article_id = response.request.params.article_id

\* A request arrives in the step, and this is the request.
Arrived == started' = started + 1

Arriving ==
    IF reqs' = reqs THEN response'.request
    ELSE reqs'[CHOOSE s \in Slots : reqs'[s] # reqs[s]]

\* C5: no two user documents share a username, and no two share an email.
C5_UniqueUsers ==
    \A u, v \in users : u # v => (u.username # v.username /\ u.email # v.email)

\* C6: a register request that finds a stored user with its email or its
\* username ends with 400 and inserts no user; one that finds none goes on
\* to insert exactly one user, with a fresh id and the request's username
\* and email, and ends with 200 and a token; and as long as that token has
\* not expired, get_current_user resolves it to the inserted user.
C6_Register ==
    /\ [][(Arrived /\ Arriving.op = "register") =>
            /\ users' = users
            /\ IF \E u \in users :
                     u.email = Arriving.email \/ u.username = Arriving.username
                  THEN reqs' = reqs /\ response'.status = 400
                  ELSE reqs' # reqs]_vars
    /\ [][\A s \in Slots :
            (reqs[s] # Idle /\ reqs[s].op = "register" /\ reqs'[s] # reqs[s]) =>
                /\ reqs'[s] = Idle
                /\ response'.status = 200
                /\ response'.request = reqs[s]
                /\ \E u \in users' :
                    /\ users' = users \cup {u}
                    /\ \A v \in users : v.id # u.id
                    /\ u.username = reqs[s].username
                    /\ u.email = reqs[s].email
                    /\ response'.body.user.id = u.id
                    /\ response'.body.token.payload.sub = u.id]_vars
    /\ [](response.op = "register" /\ response.status = 200
            /\ now < response.body.token.payload.exp
          => /\ get_current_user(response.body.token).ok
             /\ get_current_user(response.body.token).user.id = response.body.user.id
             /\ get_current_user(response.body.token).user.username
                    = response.request.username)

\* A registration has succeeded beside the stored users.
C6_Witness ==
    /\ response.op = "register"
    /\ response.status = 200
    /\ Cardinality(users) = Cardinality(SeedUsers) + 1

\* C7: a token handed out for a user expires TOKEN_EXPIRE_DAYS after it was
\* made; before that get_current_user resolves it to that user, and get_me
\* answers with that user, whatever has happened since; after that both
\* fail with 401 "Token expired".
C7_TokenLifetime ==
    /\ \A i \in issued :
        LET auth == get_current_user(i.token)
        IN  /\ i.token.payload.exp = i.at + TOKEN_EXPIRE_DAYS
            /\ i.token.payload.sub = i.user_id
            /\ now < i.token.payload.exp =>
                 (auth.ok /\ auth.user.id = i.user_id /\ auth.user \in users)
            /\ now > i.token.payload.exp =>
                 auth = [ok |-> FALSE, status |-> 401, detail |-> "Token expired"]
    /\ (response.op = "get_me" /\ response.request.token \in IssuedTokens) =>
        LET exp == response.request.token.payload.exp
        IN  /\ response.at < exp =>
                 /\ response.status = 200
                 /\ response.body.id = response.request.token.payload.sub
            /\ response.at > exp =>
                 /\ response.status = 401
                 /\ response.detail = "Token expired"

\* A token made during the run, after a tick of the clock, is presented
\* to get_me after its expiry.
C7_Witness ==
    /\ response.op = "get_me"
    /\ response.status = 401
    /\ \E i \in issued :
        /\ i.at > 0
        /\ i.token = response.request.token
        /\ response.at > i.token.payload.exp

\* C8: a request to an authenticated endpoint with a bad token ends with
\* 401 in its first step and changes no collection.
C8_BadTokenUnauthorized ==
    [][(Arrived /\ Arriving.op \in AllOps \cup {"get_me"} /\ BadToken(Arriving.token)) =>
            /\ reqs' = reqs
            /\ response'.status = 401
            /\ db' = db]_vars

\* Number of Comment documents that reference the article.
CommentsOf(bag, article_id) ==
    CountOf(bag, {c \in BagToSet(bag) : c.article_id = article_id})

\* A delete_article of the article is in progress.
Deleting(article_id) ==
    \E s \in Slots :
        /\ reqs[s].op = "delete_article"
        /\ reqs[s].params.article_id = article_id

\* C3: once the article is gone and no delete_article of it is in progress,
\* no Comment and no Like document references it.
C3_NoResidueAfterDelete ==
    \A article_id \in 1..(nextArticleId - 1) :
        (ArticleById(articles, article_id) = {} /\ ~Deleting(article_id))
        => (CommentsOf(comments, article_id) = 0 /\ LikesOf(likes, article_id) = 0)

\* The fields of an article document other than its two counters.
Content(a) == [k \in (DOMAIN a) \ {"likes_count", "comments_count"} |-> a[k]]

\* A step of an update_article or delete_article request whose user is not
\* the author of the article the request names, which exists.
NotAuthorStep(s) ==
    /\ reqs'[s] # reqs[s]
    /\ Stepping(s).op \in {"update_article", "delete_article"}
    /\ \E a \in ArticleById(articles, Stepping(s).params.article_id) :
          a.author_id # Stepping(s).current_user.id

\* update_article and delete_article of a user who is not the author end
\* with 403 and change no collection.
C4_NotAuthorForbidden ==
    \A s \in Slots :
        NotAuthorStep(s) =>
            /\ db' = db
            /\ reqs[s] # Idle =>
                 /\ reqs'[s] = Idle
                 /\ response'.status = 403
                 /\ response'.request = reqs[s]

\* C4 as stated: ..., and every step that changes or removes an article
\* document is a step of a request whose user is the article's author.
C4_OnlyAuthorModifies ==
    [][/\ C4_NotAuthorForbidden
       /\ \A s \in Slots : \A a \in articles :
            (reqs'[s] # reqs[s] /\ a \notin articles')
            => Stepping(s).current_user.id = a.author_id]_vars

\* C4 amended: ..., and every step that removes an article document, or
\* changes a field of it other than likes_count and comments_count, is a
\* step of an update_article or delete_article request whose user is the
\* article's author.
C4_OnlyAuthorUpdatesOrDeletes ==
    [][/\ C4_NotAuthorForbidden
       /\ \A s \in Slots : \A a \in articles :
            (/\ reqs'[s] # reqs[s]
             /\ \A b \in ArticleById(articles', a.id) : Content(b) # Content(a))
            => /\ Stepping(s).op \in {"update_article", "delete_article"}
               /\ Stepping(s).current_user.id = a.author_id
               /\ Stepping(s).params.article_id = a.id]_vars

\* bob's update of alice's article has ended with 403.
C4_Witness ==
    /\ response.op = "update_article"
    /\ response.status = 403
    /\ \E a \in ArticleById(articles, response.request.params.article_id) :
          a.author_id # response.request.current_user.id

\* C11: when no request is in progress, comments_count of every article
\* that exists equals the number of Comment documents with its id, after
\* any interleaving of create_comment and delete_article requests.
C11_CommentsCountMatchesComments ==
    Quiescent => \A a \in articles : a.comments_count = CommentsOf(comments, a.id)

\* Every request has ended, a refused delete_article of bob among them, and
\* both users have commented on the article.
C11_Witness ==
    /\ Quiescent
    /\ response.op = "delete_article"
    /\ response.status = 403
    /\ \E a \in articles :
        /\ a.comments_count = 2
        /\ \E c, d \in BagToSet(comments) :
              c.article_id = a.id /\ d.article_id = a.id /\ c.user_id # d.user_id

\* The documents a response carries: the records of its body, and the
\* payload of a token in it.
Documents(r) ==
    IF r.status # 200 THEN {}
    ELSE CASE r.op \in {"register", "login"} -> {r.body.user, r.body.token.payload}
           [] r.op \in {"get_me", "get_article", "create_article", "update_article",
                        "create_comment", "is_article_liked"} -> {r.body}
           [] r.op \in {"get_articles", "get_comments"} -> Range(r.body)
           [] r.op = "get_user_profile" -> {r.body.user} \cup Range(r.body.articles)
           [] OTHER -> {}

\* C12: no response of any endpoint carries a password_hash field.
C12_NoPasswordHashInResponse ==
    \A d \in Documents(response) : "password_hash" \notin DOMAIN d

\* get_user_profile has answered with a stored user, who has a password
\* hash, and with the user's articles.
C12_Witness ==
    /\ response.op = "get_user_profile"
    /\ response.status = 200
    /\ response.body.articles # <<>>
    /\ \E u \in users :
        /\ u.username = response.body.user.username
        /\ u.id = response.body.user.id
        /\ "password_hash" \in DOMAIN u

\* The list has no document twice and is ordered by created_at, newest
\* first.
NewestFirst(list) ==
    \A i \in DOMAIN list : \A j \in DOMAIN list :
        i < j => (list[i] # list[j] /\ list[i].created_at >= list[j].created_at)

C14_UpdateFrame ==
    /\ [][\A s \in Slots :
            (reqs[s] # Idle /\ reqs[s].op = "update_article" /\ reqs'[s] # reqs[s])
            => LET data == reqs[s].params.data
                   id == reqs[s].params.article_id
               IN  /\ reqs[s].pc = "update_one" =>
                        /\ <<users', comments', likes'>> = <<users, comments, likes>>
                        /\ Cardinality(articles') = Cardinality(articles)
                        /\ \A a \in articles : a.id # id => a \in articles'
                        /\ \A a \in ArticleById(articles, id) :
                            \E b \in ArticleById(articles', id) :
                                /\ DOMAIN b = DOMAIN a
                                /\ \A k \in {"title", "content", "tags", "cover_image"} :
                                      b[k] = IF k \in DOMAIN data THEN data[k] ELSE a[k]
                                /\ b.updated_at = now
                                /\ \A k \in {"id", "author_id", "author_username",
                                              "likes_count", "comments_count", "created_at"} :
                                      b[k] = a[k]
                   /\ reqs[s].pc # "update_one" => db' = db
                   /\ (reqs'[s] = Idle /\ response'.status = 200) =>
                        /\ response'.body \in ArticleById(articles, id)
                        /\ response'.body.author_id = reqs[s].current_user.id]_vars
    /\ [][\A a \in articles : \A b \in articles' :
            a.id = b.id => b.author_id = a.author_id]_vars

\* The author's update that provides the title alone has answered: the
\* title is new, updated_at is today, and the content, the creation day and
\* the like that another request has counted meanwhile are in place.
C14_Witness ==
    /\ response.op = "update_article"
    /\ response.status = 200
    /\ DOMAIN response.request.params.data = {"title"}
    /\ response.body.title = response.request.params.data.title
    /\ response.body.title # "t1"
    /\ response.body.content = "b1"
    /\ response.body.updated_at = now
    /\ response.body.created_at < now
    /\ response.body.likes_count = 1

\* The stored users who registered with the email and the password.
RegisteredWith(email, password) ==
    {u \in users : u.email = email /\ u.password_hash = hash_password(password)}

\* C15: login with the email and the password a stored user registered with
\* ends with 200 and a token whose subject is that user, and get_current_user
\* resolves the token to that user; login with any other pair ends with
\* 401; login changes no collection.
C15_Login ==
    [][(Arrived /\ Arriving.op = "login") =>
        /\ db' = db
        /\ reqs' = reqs
        /\ IF RegisteredWith(Arriving.email, Arriving.password) = {}
              THEN response'.status = 401
              ELSE \A u \in RegisteredWith(Arriving.email, Arriving.password) :
                    /\ response'.status = 200
                    /\ response'.body.token.payload.sub = u.id
                    /\ get_current_user(response'.body.token).ok
                    /\ get_current_user(response'.body.token).user = u]_vars

\* C16: likes_count of every article is at least zero in every state, also
\* while like_article and unlike_article requests are between their write
\* to the likes collection and their counter update.
C16_LikesCountNonNegative == \A a \in articles : a.likes_count >= 0

\* A step of the request of slot s, which is a like_article or a
\* create_comment request.
LikeOrCommentStep(s) ==
    /\ reqs'[s] # reqs[s]
    /\ Stepping(s).op \in {"like_article", "create_comment"}

\* C17: a like_article or create_comment request that names an article
\* that does not exist when it starts changes no collection up to and with
\* its lookup and ends there with 404, and the article does not come into
\* existence meanwhile; a request gets past its lookup only when the lookup
\* finds the article, and every Like and Comment document is inserted by a
\* request that is past its lookup, for the article the request names.
C17_MissingArticleNotFound ==
    /\ [][\A s \in Slots :
            (/\ LikeOrCommentStep(s)
             /\ reqs[s] = Idle \/ reqs[s].pc = "find_article"
             /\ ArticleById(articles, Stepping(s).params.article_id) = {})
            => /\ db' = db
               /\ reqs[s] = Idle => reqs'[s].pc = "find_article"
               /\ reqs[s] # Idle =>
                    /\ reqs'[s] = Idle
                    /\ response'.status = 404
                    /\ response'.request = reqs[s]]_vars
    /\ [][\A id \in ArticleIdInputs :
            ArticleById(articles, id) = {} => ArticleById(articles', id) = {}]_vars
    /\ [][\A s \in Slots :
            (/\ LikeOrCommentStep(s)
             /\ reqs[s] # Idle /\ reqs[s].pc = "find_article"
             /\ reqs'[s] # Idle)
            => ArticleById(articles, reqs[s].params.article_id) # {}]_vars
    /\ [][/\ \A l \in BagToSet(likes') :
                CopiesIn(l, likes') > CopiesIn(l, likes)
                => \E s \in Slots :
                      /\ AtPc(s, "like_article", "insert_like")
                      /\ reqs'[s] # reqs[s]
                      /\ l = Like(reqs[s].params.article_id, reqs[s].current_user.id)
          /\ \A c \in BagToSet(comments') :
                CopiesIn(c, comments') > CopiesIn(c, comments)
                => \E s \in Slots :
                      /\ AtPc(s, "create_comment", "insert_comment")
                      /\ reqs'[s] # reqs[s]
                      /\ c.article_id = reqs[s].params.article_id]_vars

\* A create_comment on the article that a delete_article has removed
\* before has ended with 404.
C17_Witness ==
    /\ response.op = "create_comment"
    /\ response.status = 404
    /\ response.request.params.article_id = 1
    /\ articles = {}
    /\ comments = EmptyBag

\* C18: the steps of an unlike_article request of user U for article A
\* remove at most one Like document, and only one of U for A; they change
\* no other Like document, no article other than A, of A nothing but
\* likes_count, and no other collection.
C18_UnlikeFrame ==
    [][\A s \in Slots :
        (reqs'[s] # reqs[s] /\ Stepping(s).op = "unlike_article")
        => LET r == Stepping(s)
               mine == Like(r.params.article_id, r.current_user.id)
           IN  /\ likes' = likes \/ likes' (+) SetToBag({mine}) = likes
               /\ \A l \in BagToSet(likes) : l # mine => CopiesIn(l, likes') = CopiesIn(l, likes)
               /\ \A a \in articles : a.id # r.params.article_id => a \in articles'
               /\ \A a \in articles : \E b \in articles' :
                    [b EXCEPT !.likes_count = 0] = [a EXCEPT !.likes_count = 0]
               /\ Cardinality(articles') = Cardinality(articles)
               /\ <<users', comments'>> = <<users, comments>>]_vars

\* An unlike has ended with success and has left the likes of the other
\* user and on the other article in place.
C18_Witness ==
    /\ response.op = "unlike_article"
    /\ response.status = 200
    /\ \E l, m \in BagToSet(likes) :
        /\ l.article_id = response.request.params.article_id
        /\ l.user_id # response.request.current_user.id
        /\ m.article_id # response.request.params.article_id

\* A like_article request of the user for the article is in progress.
Liking(user_id, article_id) ==
    \E s \in Slots :
        /\ reqs[s].op = "like_article"
        /\ reqs[s].current_user.id = user_id
        /\ reqs[s].params.article_id = article_id

\* C19: when the response sent last is that of a successful unlike_article
\* of user U for article A, and no like_article of U for A is in progress
\* (so none has started since), is_article_liked of U for A answers false.
C19_NotLikedAfterUnlike ==
    [][\A s \in Slots :
        (/\ AtPc(s, "is_article_liked", "find_like")
         /\ reqs'[s] = Idle
         /\ response.op = "unlike_article"
         /\ response.status = 200
         /\ response.request.current_user.id = reqs[s].current_user.id
         /\ response.request.params.article_id = reqs[s].params.article_id
         /\ ~Liking(reqs[s].current_user.id, reqs[s].params.article_id))
        => response'.body.is_liked = FALSE]_vars

\* C20: an update_article request that is not refused for its user not
\* being the author ends with 200 and the article, or with 404.
C20_UpdateTypedOutcome ==
    (response.op = "update_article" /\ response.status # 403)
    => \/ response.status = 200 /\ response.body.id = response.request.params.article_id
       \/ response.status = 404

====
